---- MODULE Spec2Model ----
(***************************************************************************)
(* A model of indexify's ingestion coordinator (src/src/data_manager.rs)   *)
(* and of the replicated state machine whose commands are declared in      *)
(* src/src/state/store/requests.rs.                                        *)
(*                                                                         *)
(* Conventions.                                                            *)
(*   Option<T>      None is <<>>, Some(x) is <<x>>.                        *)
(*   String ids     a content id is the sequence of values fed to the      *)
(*                  hasher (see ContentId); the empty string "" of a       *)
(*                  parent_id field is EmptyId.                            *)
(*   Bytes          sequences of small numbers.                            *)
(*   Result         "Ok" or "Err".                                         *)
(***************************************************************************)
EXTENDS Integers, Sequences, FiniteSets, TLC

(***************************************************************************)
(* Bounds of the model.                                                    *)
(***************************************************************************)
MaxCalls == 2
MaxTexts == 2
MaxChildren == 2
MaxFeatures == 2
MaxCommands == 2

(***************************************************************************)
(* Input domains.                                                          *)
(***************************************************************************)
Namespaces == {"ns1", "ns2"}
FileNames == {"a.txt", "k"}
BytesSet == {<<104>>, <<104, 105>>}
TaskIds == {"t1"}
Policies == {"P"}
Outcomes == {"Success", "Failure"}

None == <<>>
Some(x) == <<x>>
EmptyId == <<>>

SeqsUpTo(S, n) == UNION {[1..k -> S] : k \in 0..n}
SeqToSet(s) == {s[k] : k \in 1..Len(s)}

(***************************************************************************)
(* upload_file: the MIME type guessed from the extension of the name.      *)
(***************************************************************************)
Extension(name) == CASE name = "a.txt" -> "txt"
                     [] OTHER -> ""
MimeFromExt(ext) == CASE ext = "txt" -> "text/plain"
                      [] OTHER -> "application/octet-stream"

UploadContent(data, name) ==
    [content_type |-> MimeFromExt(Extension(name)),
     bytes |-> data,
     labels |-> <<>>,
     features |-> <<>>]

(***************************************************************************)
(* write_content: the id, the record.                                      *)
(***************************************************************************)
\* nanoid!(): a fresh nonce; the n-th nonce generated.
Nanoid(n) == "nano" \o ToString(n)

\* file_name.map(|f| f.to_string()).unwrap_or(nanoid!())
ResolveFileName(file_name, n) == IF file_name # None THEN file_name[1] ELSE Nanoid(n)

\* The DefaultHasher is fed namespace, file_name and, when present, parent_id;
\* the digest is modelled by the sequence fed (no collisions).
ContentId(namespace, file_name, parent_id) ==
    LET s1 == <<namespace>>
        s2 == Append(s1, file_name)
        s3 == IF parent_id # None THEN Append(s2, parent_id[1]) ELSE s2
    IN  s3

\* blob_storage.put(name, file): the url returned for a key.
StorageUrl(key) == <<"blob", key>>

\* A mutant of ContentMetadataOf: size_bytes is left at zero.
ContentMetadataOf_NoSize(id, file_name, storage_url, parent_id, ts, content, namespace, source, size_bytes) ==
    [id |-> id, file_name |-> file_name, storage_url |-> storage_url,
     parent_id |-> IF parent_id # None THEN parent_id[1] ELSE EmptyId,
     created_at |-> ts, mime |-> content.content_type, namespace |-> namespace,
     labels |-> content.labels, source |-> source, size_bytes |-> 0]

\* The ContentMetadata write_content builds.
ContentMetadataOf(id, file_name, storage_url, parent_id, ts, content, namespace, source, size_bytes) ==
    [id |-> id, file_name |-> file_name, storage_url |-> storage_url,
     parent_id |-> IF parent_id # None THEN parent_id[1] ELSE EmptyId,
     created_at |-> ts, mime |-> content.content_type, namespace |-> namespace,
     labels |-> content.labels, source |-> source, size_bytes |-> size_bytes]

\* A mutant of write_content: the timestamp is hashed into the id as well.
write_content_HashTime(namespace, content, file_name, parent_id, source, size_bytes, n, ts) ==
    LET fname == ResolveFileName(file_name, n)
        id == ContentId(namespace, fname \o "@" \o ToString(ts), parent_id)
    IN  ContentMetadataOf(id, fname, StorageUrl(fname), parent_id, ts, content,
                          namespace, source, size_bytes)

\* The record write_content returns when the blob write succeeds.
write_content(namespace, content, file_name, parent_id, source, size_bytes, n, ts) ==
    LET fname == ResolveFileName(file_name, n)
        id == ContentId(namespace, fname, parent_id)
    IN  ContentMetadataOf(id, fname, StorageUrl(fname), parent_id, ts, content,
                          namespace, source, size_bytes)

\* write_to_blob_store: the key is the name alone; a put overwrites.
write_to_blob_store(store, name, file) ==
    [k \in DOMAIN store \cup {name} |-> IF k = name THEN file ELSE store[k]]

(***************************************************************************)
(* The state machine: apply(state, command).  A state is a record          *)
(*   content               id -> ContentMetadata (with tombstoned)         *)
(*   tasks                 task id -> Task                                 *)
(*   graphs                graph name -> ExtractionGraph                   *)
(*   policies              policy id -> ExtractionPolicy                   *)
(*   schemas               graph name -> StructuredDataSchema              *)
(*   gc_tasks              gc task id -> GarbageCollectionTask             *)
(*   executors             executor id -> Executor                         *)
(*   indexes               index id -> Index                               *)
(*   state_changes         the append-only sequence of StateChange         *)
(*   next_state_change_id  the id the next state change gets               *)
(***************************************************************************)
InitState ==
    [content |-> <<>>, tasks |-> <<>>, graphs |-> <<>>, policies |-> <<>>,
     schemas |-> <<>>, gc_tasks |-> <<>>, executors |-> <<>>, indexes |-> <<>>,
     state_changes |-> <<>>, next_state_change_id |-> 1]

\* f with key k set to v (insert or replace).
Put(f, k, v) == [x \in DOMAIN f \cup {k} |-> IF x = k THEN v ELSE f[x]]

\* The extractor a policy binds.
PolicyExtractor(policy_id) == "X"

Task(id, namespace, content_id, policy_id) ==
    [id |-> id, namespace |-> namespace, content_id |-> content_id,
     policy_id |-> policy_id, extractor |-> PolicyExtractor(policy_id),
     outcome |-> "Unknown", executor_id |-> None]

\* A mutant of InsertContent: a row whose id exists replaces the stored record.
RECURSIVE InsertContent_Overwrite(_, _)
InsertContent_Overwrite(content, rows) ==
    IF rows = <<>> THEN content
    ELSE LET row == Head(rows)
             stored == [id |-> row.id, file_name |-> row.file_name,
                        storage_url |-> row.storage_url, parent_id |-> row.parent_id,
                        created_at |-> row.created_at, mime |-> row.mime,
                        namespace |-> row.namespace, labels |-> row.labels,
                        source |-> row.source, size_bytes |-> row.size_bytes,
                        tombstoned |-> FALSE]
         IN  InsertContent_Overwrite(Put(content, row.id, stored), Tail(rows))

\* CreateContent: rows are inserted in order; a row whose id exists is skipped.
RECURSIVE InsertContent(_, _)
InsertContent(content, rows) ==
    IF rows = <<>> THEN content
    ELSE LET row == Head(rows)
             stored == [id |-> row.id, file_name |-> row.file_name,
                        storage_url |-> row.storage_url, parent_id |-> row.parent_id,
                        created_at |-> row.created_at, mime |-> row.mime,
                        namespace |-> row.namespace, labels |-> row.labels,
                        source |-> row.source, size_bytes |-> row.size_bytes,
                        tombstoned |-> FALSE]
         IN  InsertContent(IF row.id \in DOMAIN content THEN content
                           ELSE Put(content, row.id, stored), Tail(rows))

\* CreateTasks: a task whose id exists is skipped.
RECURSIVE InsertTasks(_, _)
InsertTasks(tasks, new) ==
    IF new = <<>> THEN tasks
    ELSE InsertTasks(IF Head(new).id \in DOMAIN tasks THEN tasks
                     ELSE Put(tasks, Head(new).id, Head(new)), Tail(new))

\* The contents of a namespace whose chain of parent_id reaches one of ids.
RECURSIVE Descendants(_, _, _)
Descendants(content, namespace, ids) ==
    LET more == {c \in DOMAIN content :
                    /\ content[c].namespace = namespace
                    /\ content[c].parent_id \in ids}
    IN  IF more \subseteq ids THEN ids
        ELSE Descendants(content, namespace, ids \cup more)

\* TombstoneContent: the named contents of the namespace and their descendants.
TombstoneContent(content, namespace, content_ids) ==
    LET roots == {c \in content_ids \cap DOMAIN content : content[c].namespace = namespace}
        marked == Descendants(content, namespace, roots)
    IN  [c \in DOMAIN content |->
            IF c \in marked THEN [content[c] EXCEPT !.tombstoned = TRUE] ELSE content[c]]

\* UpdateTask: the outcome is recorded when mark_finished; on Success the
\* children rows are inserted in the same command.
UpdateTask(sm, p) ==
    IF p.task.id \notin DOMAIN sm.tasks THEN sm
    ELSE [sm EXCEPT
            !.tasks = IF p.mark_finished
                      THEN [@ EXCEPT ![p.task.id].outcome = p.task.outcome]
                      ELSE @,
            !.content = IF p.mark_finished /\ p.task.outcome = "Success"
                        THEN InsertContent(@, p.content_metadata)
                        ELSE @]

\* The id of a policy: deterministic from {namespace, graph, name}.
PolicyId(namespace, graph, name) == <<namespace, graph, name>>

\* The names of a list of policies.
PolicyNames(policies) == {policies[k].name : k \in 1..Len(policies)}

\* Every content_source is "ingestion" or a policy of the graph.
SourcesResolve(policies) ==
    \A k \in 1..Len(policies) :
        policies[k].content_source \in PolicyNames(policies) \cup {"ingestion"}

\* A policy name collides: twice in the command, or a policy of that id exists.
NameCollides(sm, graph, policies) ==
    \/ \E j, k \in 1..Len(policies) : j # k /\ policies[j].name = policies[k].name
    \/ \E k \in 1..Len(policies) :
          PolicyId(graph.namespace, graph.name, policies[k].name) \in DOMAIN sm.policies

\* The source of the policy of a name ("ingestion" when there is none).
SourceOf(policies, name) ==
    IF \E k \in 1..Len(policies) : policies[k].name = name
    THEN policies[CHOOSE k \in 1..Len(policies) : policies[k].name = name].content_source
    ELSE "ingestion"

\* Following content_source from a name reaches "ingestion" within n steps.
RECURSIVE ReachesRoot(_, _, _)
ReachesRoot(policies, name, n) ==
    IF name = "ingestion" THEN TRUE
    ELSE IF n = 0 THEN FALSE
    ELSE ReachesRoot(policies, SourceOf(policies, name), n - 1)

\* A mutant of GraphIsAcyclic: the cycle check is left out.
GraphIsAcyclic_Unchecked(policies) == TRUE

\* No cycle in content_source: every policy leads back to "ingestion".
GraphIsAcyclic(policies) ==
    \A k \in 1..Len(policies) : ReachesRoot(policies, policies[k].name, Len(policies))

\* The validation of CreateExtractionGraph against the applied state.
ValidExtractionGraph(sm, graph, policies) ==
    /\ SourcesResolve(policies)
    /\ ~NameCollides(sm, graph, policies)
    /\ GraphIsAcyclic(policies)

\* CreateExtractionGraph: the graph, its policies and the schema are stored
\* together; a command that fails the validation changes nothing.
CreateExtractionGraph(sm, p) ==
    LET g == p.extraction_graph
        ps == p.extraction_policies
        ids == {PolicyId(g.namespace, g.name, n) : n \in PolicyNames(ps)}
    IN  IF ~ValidExtractionGraph(sm, g, ps) THEN sm
        ELSE [sm EXCEPT
                !.graphs = Put(@, g.name, [name |-> g.name, namespace |-> g.namespace,
                                           policies |-> ps]),
                !.policies = [id \in DOMAIN @ \cup ids |->
                                IF id \in ids
                                THEN [name |-> id[3], graph |-> g.name, namespace |-> g.namespace,
                                      content_source |-> SourceOf(ps, id[3])]
                                ELSE @[id]],
                !.schemas = Put(@, g.name, p.structured_data_schema)]

\* CreateExtractionPolicy: the policy is attached under its id.
CreateExtractionPolicy(sm, p) ==
    LET e == p.extraction_policy
    IN  [sm EXCEPT !.policies =
            Put(@, PolicyId(e.namespace, e.graph, e.name),
                [name |-> e.name, graph |-> e.graph, namespace |-> e.namespace,
                 content_source |-> e.content_source])]

\* CreateIndex: the index record is stored under its id.
CreateIndex(sm, p) == [sm EXCEPT !.indexes = Put(@, p.id, p.index)]

\* RegisterExecutor: the executor is inserted or replaced.
RegisterExecutor(sm, p) ==
    [sm EXCEPT !.executors = Put(@, p.executor_id,
                                 [id |-> p.executor_id, addr |-> p.addr,
                                  extractor |-> p.extractor])]

\* A mutant of UnassignTasks: the tasks of the executor are left as they are.
UnassignTasks_Keep(tasks, executor_id) == tasks

\* The open tasks of an executor go back to the unassigned tasks.
UnassignTasks(tasks, executor_id) ==
    [t \in DOMAIN tasks |->
        IF tasks[t].executor_id = <<executor_id>> /\ tasks[t].outcome = "Unknown"
        THEN [tasks[t] EXCEPT !.executor_id = <<>>] ELSE tasks[t]]

\* RemoveExecutor: the executor is deleted and its open tasks are unassigned;
\* for an executor that is not registered the command changes nothing.
RemoveExecutor(sm, p) ==
    IF p.executor_id \notin DOMAIN sm.executors THEN sm
    ELSE [sm EXCEPT !.executors = [e \in DOMAIN @ \ {p.executor_id} |-> @[e]],
                    !.tasks = UnassignTasks(@, p.executor_id)]

\* The validation of AssignTask: every task exists and is open, every executor
\* is registered and runs the task's extractor.
CanAssignTask(sm, assignments) ==
    \A t \in DOMAIN assignments :
        /\ t \in DOMAIN sm.tasks
        /\ sm.tasks[t].outcome = "Unknown"
        /\ assignments[t] \in DOMAIN sm.executors
        /\ sm.executors[assignments[t]].extractor = sm.tasks[t].extractor

\* AssignTask: each named task gets its executor.
AssignTask(sm, p) ==
    IF ~CanAssignTask(sm, p.assignments) THEN sm
    ELSE [sm EXCEPT !.tasks = [t \in DOMAIN @ |->
                                 IF t \in DOMAIN p.assignments
                                 THEN [@[t] EXCEPT !.executor_id = <<p.assignments[t]>>]
                                 ELSE @[t]]]

\* The GarbageCollectionTask of a tombstoned content.
GarbageCollectionTask(content) ==
    [id |-> <<"gc">> \o content.id, content_id |-> content.id,
     storage_url |-> content.storage_url, finished |-> FALSE]

\* CreateOrAssignGarbageCollectionTask: a gc task whose id exists is skipped.
RECURSIVE InsertGcTasks(_, _)
InsertGcTasks(gc_tasks, new) ==
    IF new = <<>> THEN gc_tasks
    ELSE InsertGcTasks(IF Head(new).id \in DOMAIN gc_tasks THEN gc_tasks
                       ELSE Put(gc_tasks, Head(new).id, Head(new)), Tail(new))

\* UpdateGarbageCollectionTask: mark_finished sets finished on the stored task.
UpdateGarbageCollectionTask(sm, p) ==
    IF p.gc_task.id \notin DOMAIN sm.gc_tasks \/ ~p.mark_finished THEN sm
    ELSE [sm EXCEPT !.gc_tasks[p.gc_task.id].finished = TRUE]

\* The garbage collection of a content has been confirmed.
GcFinished(sm, content_id) ==
    \E g \in DOMAIN sm.gc_tasks :
        sm.gc_tasks[g].content_id = content_id /\ sm.gc_tasks[g].finished

\* A mutant of CanRemoveTombstonedContent: the gc task is not looked at.
CanRemoveTombstonedContent_NoGc(sm, content_id) ==
    /\ content_id \in DOMAIN sm.content
    /\ sm.content[content_id].tombstoned

\* The validation of RemoveTombstonedContent against the applied state.
CanRemoveTombstonedContent(sm, content_id) ==
    /\ content_id \in DOMAIN sm.content
    /\ sm.content[content_id].tombstoned
    /\ GcFinished(sm, content_id)

\* RemoveTombstonedContent: the record is deleted; a command that fails the
\* validation changes nothing.
RemoveTombstonedContent(sm, p) ==
    IF ~CanRemoveTombstonedContent(sm, p.content_id) THEN sm
    ELSE [sm EXCEPT !.content = [c \in DOMAIN @ \ {p.content_id} |-> @[c]]]

ApplyPayload(sm, p) ==
    CASE p.type = "CreateContent" ->
            [sm EXCEPT !.content = InsertContent(@, p.content_metadata)]
      [] p.type = "CreateTasks" ->
            [sm EXCEPT !.tasks = InsertTasks(@, p.tasks)]
      [] p.type = "TombstoneContent" ->
            [sm EXCEPT !.content = TombstoneContent(@, p.namespace, p.content_ids)]
      [] p.type = "UpdateTask" -> UpdateTask(sm, p)
      [] p.type = "CreateExtractionGraph" -> CreateExtractionGraph(sm, p)
      [] p.type = "RegisterExecutor" -> RegisterExecutor(sm, p)
      [] p.type = "RemoveExecutor" -> RemoveExecutor(sm, p)
      [] p.type = "AssignTask" -> AssignTask(sm, p)
      [] p.type = "CreateOrAssignGarbageCollectionTask" ->
            [sm EXCEPT !.gc_tasks = InsertGcTasks(@, p.gc_tasks)]
      [] p.type = "UpdateGarbageCollectionTask" -> UpdateGarbageCollectionTask(sm, p)
      [] p.type = "RemoveTombstonedContent" -> RemoveTombstonedContent(sm, p)
      [] p.type = "CreateExtractionPolicy" -> CreateExtractionPolicy(sm, p)
      [] p.type = "CreateIndex" -> CreateIndex(sm, p)
      [] OTHER -> sm

\* A mutant of AppendStateChanges: every change of a command gets the same id.
AppendStateChanges_SameId(sm, changes) ==
    [sm EXCEPT
        !.state_changes = @ \o [k \in 1..Len(changes) |->
                                  [id |-> sm.next_state_change_id,
                                   object_id |-> changes[k].object_id,
                                   change_type |-> changes[k].change_type,
                                   processed |-> FALSE]],
        !.next_state_change_id = @ + Len(changes)]

\* The new state changes of a command get the next ids, in order.
AppendStateChanges(sm, changes) ==
    [sm EXCEPT
        !.state_changes = @ \o [k \in 1..Len(changes) |->
                                  [id |-> sm.next_state_change_id + k - 1,
                                   object_id |-> changes[k].object_id,
                                   change_type |-> changes[k].change_type,
                                   processed |-> FALSE]],
        !.next_state_change_id = @ + Len(changes)]

\* A mutant of MarkProcessed: no state change is marked.
MarkProcessed_None(sm, processed) == sm

\* state_changes_processed: the named state changes are marked processed.
MarkProcessed(sm, processed) ==
    [sm EXCEPT !.state_changes =
        [k \in 1..Len(@) |->
            IF \E n \in 1..Len(processed) : processed[n].state_change_id = @[k].id
            THEN [@[k] EXCEPT !.processed = TRUE] ELSE @[k]]]

\* A mutant of Emitted: every state change of the request is appended.
Emitted_All(sm, changes, seen) == changes

\* The state changes of a request that apply appends: a command is a no-op on
\* replay, so a NewContent for a row that is not inserted (its id exists) and
\* an ExecutorAdded for an executor that exists are not emitted.
RECURSIVE Emitted(_, _, _)
Emitted(sm, changes, seen) ==
    IF changes = <<>> THEN <<>>
    ELSE LET c == Head(changes)
             old == \/ /\ c.change_type = "NewContent"
                       /\ (c.object_id \in DOMAIN sm.content \/ c.object_id \in seen)
                    \/ /\ c.change_type = "ExecutorAdded"
                       /\ c.object_id[1] \in DOMAIN sm.executors
         IN  (IF old THEN <<>> ELSE <<c>>)
             \o Emitted(sm, Tail(changes),
                        IF c.change_type = "NewContent" THEN seen \cup {c.object_id} ELSE seen)

\* apply of one StateMachineUpdateRequest.
Apply(sm, req) ==
    MarkProcessed(AppendStateChanges(ApplyPayload(sm, req.payload),
                                     Emitted(sm, req.new_state_changes, {})),
                  req.state_changes_processed)

(***************************************************************************)
(* The coordinator's RPC facade: the commands it proposes.                 *)
(***************************************************************************)
StateChange(object_id, change_type) == [object_id |-> object_id, change_type |-> change_type]

Request(payload, changes) ==
    [payload |-> payload, new_state_changes |-> changes, state_changes_processed |-> <<>>]

CreateContentRequest(rows) ==
    Request([type |-> "CreateContent", content_metadata |-> rows],
            [k \in 1..Len(rows) |-> StateChange(rows[k].id, "NewContent")])

CreateTasksRequest(tasks) ==
    Request([type |-> "CreateTasks", tasks |-> tasks], <<>>)

TombstoneContentRequest(namespace, content_ids) ==
    Request([type |-> "TombstoneContent", namespace |-> namespace, content_ids |-> content_ids],
            <<StateChange(<<namespace>>, "TombstonedContent")>>)

RegisterExecutorRequest(executor_id, extractor) ==
    Request([type |-> "RegisterExecutor", addr |-> "addr", executor_id |-> executor_id,
             extractor |-> extractor],
            <<StateChange(<<executor_id>>, "ExecutorAdded")>>)

RemoveExecutorRequest(executor_id) ==
    Request([type |-> "RemoveExecutor", executor_id |-> executor_id],
            <<StateChange(<<executor_id>>, "ExecutorRemoved")>>)

AssignTaskRequest(assignments) ==
    Request([type |-> "AssignTask", assignments |-> assignments], <<>>)

CreateOrAssignGarbageCollectionTaskRequest(gc_tasks) ==
    Request([type |-> "CreateOrAssignGarbageCollectionTask", gc_tasks |-> gc_tasks], <<>>)

UpdateGarbageCollectionTaskRequest(gc_task, mark_finished) ==
    Request([type |-> "UpdateGarbageCollectionTask", gc_task |-> gc_task,
             mark_finished |-> mark_finished], <<>>)

RemoveTombstonedContentRequest(content_id) ==
    Request([type |-> "RemoveTombstonedContent", content_id |-> content_id], <<>>)

CreateExtractionPolicyRequest(extraction_policy) ==
    Request([type |-> "CreateExtractionPolicy", extraction_policy |-> extraction_policy,
             updated_structured_data_schema |-> None,
             new_structured_data_schema |-> "schema"], <<>>)

CreateIndexRequest(index, namespace, id) ==
    Request([type |-> "CreateIndex", index |-> index, namespace |-> namespace, id |-> id], <<>>)

MarkStateChangesProcessedRequest(state_changes) ==
    [payload |-> [type |-> "MarkStateChangesProcessed", state_changes |-> state_changes],
     new_state_changes |-> <<>>, state_changes_processed |-> state_changes]

CreateExtractionGraphRequest(graph, policies, schema) ==
    Request([type |-> "CreateExtractionGraph", extraction_graph |-> graph,
             extraction_policies |-> policies, structured_data_schema |-> schema],
            [k \in 1..Len(policies) |->
                StateChange(PolicyId(graph.namespace, graph.name, policies[k].name),
                            "NewExtractionPolicy")])

\* update_task: UpdateTaskRequest{executor_id, task_id, outcome, content_list}.
UpdateTaskCommand(sm, req) ==
    Request([type |-> "UpdateTask",
             task |-> [id |-> req.task_id, outcome |-> req.outcome],
             mark_finished |-> req.outcome # "Unknown",
             executor_id |-> Some(req.executor_id),
             content_metadata |-> req.content_list],
            <<StateChange(<<req.task_id>>, "TaskCompleted")>>)

\* ListContent{namespace, source, parent_id, labels_eq}: the rows of the
\* namespace that match the filters; an empty filter matches every row.
ListContent(sm, namespace, source, parent_id, labels_eq) ==
    {sm.content[c] : c \in {x \in DOMAIN sm.content :
        /\ sm.content[x].namespace = namespace
        /\ source = "" \/ sm.content[x].source = source
        /\ parent_id = EmptyId \/ sm.content[x].parent_id = parent_id
        /\ labels_eq = <<>> \/ sm.content[x].labels = labels_eq}}

(***************************************************************************)
(* Inputs of the ingestion coordinator.                                    *)
(***************************************************************************)
IndexTables == {"T1", "T2"}

\* ingest_metadata.output_to_index_table_mapping of the policy.
OutputToIndexTableMapping == [emb |-> "T1", emb2 |-> "T2", meta |-> "T1"]

EmbeddingJson(values) == [kind |-> "embedding", values |-> values]
OtherJson(v) == [kind |-> "object", values |-> v]

Features ==
    {[name |-> "emb",   feature_type |-> "Embedding", data |-> EmbeddingJson(<<1>>)],
     [name |-> "emb2",  feature_type |-> "Embedding", data |-> EmbeddingJson(<<2>>)],
     [name |-> "emb",   feature_type |-> "Embedding", data |-> OtherJson(<<0>>)],
     [name |-> "meta",  feature_type |-> "Metadata",  data |-> OtherJson(<<3>>)],
     [name |-> "other", feature_type |-> "Metadata",  data |-> OtherJson(<<4>>)],
     [name |-> "other", feature_type |-> "Embedding", data |-> EmbeddingJson(<<5>>)]}

TextItems ==
    {[content_type |-> "text/plain", bytes |-> b, labels |-> <<>>, features |-> <<>>] : b \in BytesSet}

Children ==
    {[content_type |-> "text/plain", bytes |-> <<104>>, labels |-> <<>>, features |-> fs] :
        fs \in SeqsUpTo(Features, MaxFeatures)}

\* The content lists an executor sends: at most k children carrying at most
\* budget features between them.
RECURSIVE ContentLists(_, _)
ContentLists(k, budget) ==
    IF k = 0 THEN {<<>>}
    ELSE {<<>>} \cup
         UNION {{<<c>> \o rest : rest \in ContentLists(k - 1, budget - Len(c.features))} :
                    c \in {d \in Children : Len(d.features) <= budget}}

ExtractedContentLists == ContentLists(MaxChildren, MaxFeatures)

\* serde_json::from_value::<Embedding>(feature.data)
ParseEmbedding(data) == IF data.kind = "embedding" THEN Some(data.values) ELSE None

\* A mutant of IndexTableName: every mapped feature goes to the first table.
IndexTableName_First(mapping, name) ==
    IF name \in DOMAIN mapping THEN Some("T1") ELSE None

\* output_to_index_table_mapping.get(&feature.name)
IndexTableName(mapping, name) ==
    IF name \in DOMAIN mapping THEN Some(mapping[name]) ELSE None

\* ExtractedMetadata::new(...)
ExtractedMetadata(content_id, parent_id, data, extractor, policy, namespace) ==
    [content_id |-> content_id, parent_id |-> parent_id, metadata |-> data,
     extractor |-> extractor, extraction_policy |-> policy, namespace |-> namespace]

\* new_embeddings.entry(table).or_default().push(e)
PushEmbedding(buffer, table, e) ==
    Put(buffer, table, IF table \in DOMAIN buffer THEN Append(buffer[table], e) ELSE <<e>>)

\* A function without one of its keys.
Without(f, k) == [x \in DOMAIN f \ {k} |-> f[x]]

(***************************************************************************)
(* State.                                                                  *)
(*   sm            the coordinator's (leader's) applied state              *)
(*   blobs         the blob store: key -> bytes                            *)
(*   vec_tables    the vector index: table -> appended rows                *)
(*   meta_index    the metadata index: namespace -> inserted rows          *)
(*   call          the ingestion call in progress and its position         *)
(*   nonces        how many nanoids have been generated                    *)
(*   clock         the system time in seconds                              *)
(*   ncalls        how many ingestion calls have begun                     *)
(*   last          the last call that returned: operation, arguments,      *)
(*                 result                                                  *)
(*   reported      task id -> ids of the children written for the task by  *)
(*                 write_extracted_content calls that returned Ok          *)
(*   task_updates  the UpdateTaskRequests issued, each with the call's     *)
(*                 ingest_metadata and the children reported till then     *)
(*   log, replicas the replicated command log and each replica's applied   *)
(*                 index and state                                         *)
(***************************************************************************)
VARIABLES sm, blobs, vec_tables, meta_index, call, nonces, clock, ncalls, last,
          reported, task_updates, log, replicas

vars == <<sm, blobs, vec_tables, meta_index, call, nonces, clock, ncalls, last,
          reported, task_updates, log, replicas>>

ingest_vars == <<sm, blobs, vec_tables, meta_index, call, nonces, clock, ncalls, last,
                 reported, task_updates>>
repl_vars == <<log, replicas>>

Replicas == {"r1", "r2"}

Idle == [op |-> "none", pc |-> "idle"]

Init ==
    /\ sm = InitState
    /\ blobs = <<>>
    /\ vec_tables = [T \in IndexTables |-> <<>>]
    /\ meta_index = [ns \in Namespaces |-> <<>>]
    /\ call = Idle
    /\ nonces = 0
    /\ clock = 1
    /\ ncalls = 0
    /\ last = [op |-> "none", args |-> <<>>, result |-> "none"]
    /\ reported = [t \in TaskIds |-> {}]
    /\ task_updates = <<>>
    /\ log = <<>>
    /\ replicas = [r \in Replicas |-> [applied |-> 0, state |-> InitState]]

\* What a call finds when it begins.
Snapshot == [content |-> sm.content, blobs |-> blobs, vec_tables |-> vec_tables,
             meta_index |-> meta_index, indexes |-> sm.indexes]

Begin(op, args, pc) ==
    /\ call.pc = "idle"
    /\ ncalls < MaxCalls
    /\ ncalls' = ncalls + 1
    /\ call' = [op |-> op, pc |-> pc, args |-> args, pre |-> Snapshot,
                replay |-> (last.op = op /\ last.args = args /\ last.result = "Ok"),
                i |-> 1, j |-> 1, new_content_metadata |-> <<>>,
                new_embeddings |-> <<>>,
                result |-> IF pc = "returned" THEN "Ok" ELSE "none",
                error |-> "none"]

Returns(result) == call' = [call EXCEPT !.pc = "returned", !.result = result]

\* The kinds of error a call on the coordinator, the blob store or an index
\* fails with.
ErrorKinds == {"Unavailable", "Internal"}

\* `?` on a failed call: the error is returned to the caller.
Fails == \E kind \in ErrorKinds :
            call' = [call EXCEPT !.pc = "returned", !.result = "Err", !.error = kind]

\* A failed call whose error is logged and dropped: the operation returns Ok.
Swallows == \E kind \in ErrorKinds :
               call' = [call EXCEPT !.pc = "returned", !.result = "Ok", !.error = kind]

(***************************************************************************)
(* upload_file                                                             *)
(***************************************************************************)
\* A mutant of UploadFileName: the name is not passed on.
UploadFileName_None(name) == None

\* The file_name upload_file hands to write_content.
UploadFileName(name) == Some(name)

upload_file(namespace, data, name) ==
    /\ Begin("upload_file", [namespace |-> namespace, data |-> data, name |-> name], "write_content")
    /\ UNCHANGED repl_vars
    /\ UNCHANGED <<sm, blobs, vec_tables, meta_index, nonces, clock, last, reported, task_updates>>

upload_file_write_content ==
    /\ call.op = "upload_file" /\ call.pc = "write_content"
    /\ LET a == call.args
           content == UploadContent(a.data, a.name)
           file_name == UploadFileName(a.name)
           md == write_content(a.namespace, content, file_name, None, "ingestion",
                               Len(a.data), nonces + 1, clock)
       IN  /\ nonces' = IF file_name = None THEN nonces + 1 ELSE nonces
           /\ clock' = clock + 1
           /\ \/ /\ blobs' = write_to_blob_store(blobs, md.file_name, content.bytes)
                 /\ call' = [call EXCEPT !.pc = "create_content",
                                         !.new_content_metadata = <<md>>]
              \/ /\ Fails
                 /\ UNCHANGED blobs
    /\ UNCHANGED repl_vars
    /\ UNCHANGED <<sm, vec_tables, meta_index, ncalls, last, reported, task_updates>>

upload_file_create_content ==
    /\ call.op = "upload_file" /\ call.pc = "create_content"
    /\ \/ /\ sm' = Apply(sm, CreateContentRequest(call.new_content_metadata))
          /\ Returns("Ok")
       \/ /\ Fails
          /\ UNCHANGED sm
    /\ UNCHANGED repl_vars
    /\ UNCHANGED <<blobs, vec_tables, meta_index, nonces, clock, ncalls, last, reported, task_updates>>

(***************************************************************************)
(* add_texts                                                               *)
(***************************************************************************)
add_texts(namespace, content_list) ==
    /\ Begin("add_texts", [namespace |-> namespace, content_list |-> content_list],
             IF content_list = <<>> THEN "returned" ELSE "write_content")
    /\ UNCHANGED repl_vars
    /\ UNCHANGED <<sm, blobs, vec_tables, meta_index, nonces, clock, last, reported, task_updates>>

add_texts_write_content ==
    /\ call.op = "add_texts" /\ call.pc = "write_content"
    /\ LET a == call.args
           text == a.content_list[call.i]
           md == write_content(a.namespace, text, None, None, "ingestion",
                               Len(text.bytes), nonces + 1, clock)
       IN  /\ nonces' = nonces + 1
           /\ clock' = clock + 1
           /\ \/ /\ blobs' = write_to_blob_store(blobs, md.file_name, text.bytes)
                 /\ call' = [call EXCEPT !.pc = "create_content",
                                         !.new_content_metadata = Append(@, md)]
              \/ /\ Fails
                 /\ UNCHANGED blobs
    /\ UNCHANGED repl_vars
    /\ UNCHANGED <<sm, vec_tables, meta_index, ncalls, last, reported, task_updates>>

\* A mutant of add_texts_create_content: a failed create_content is logged and
\* the loop goes on to the next item.
add_texts_create_content_Continue ==
    /\ call.op = "add_texts" /\ call.pc = "create_content"
    /\ \/ sm' = Apply(sm, CreateContentRequest(<<call.new_content_metadata[call.i]>>))
       \/ UNCHANGED sm
    /\ IF call.i < Len(call.args.content_list)
       THEN call' = [call EXCEPT !.pc = "write_content", !.i = @ + 1]
       ELSE Returns("Ok")
    /\ UNCHANGED repl_vars
    /\ UNCHANGED <<blobs, vec_tables, meta_index, nonces, clock, ncalls, last, reported, task_updates>>

add_texts_create_content ==
    /\ call.op = "add_texts" /\ call.pc = "create_content"
    /\ \/ /\ sm' = Apply(sm, CreateContentRequest(<<call.new_content_metadata[call.i]>>))
          /\ IF call.i < Len(call.args.content_list)
             THEN call' = [call EXCEPT !.pc = "write_content", !.i = @ + 1]
             ELSE Returns("Ok")
       \/ /\ Fails
          /\ UNCHANGED sm
    /\ UNCHANGED repl_vars
    /\ UNCHANGED <<blobs, vec_tables, meta_index, nonces, clock, ncalls, last, reported, task_updates>>

(***************************************************************************)
(* write_extracted_content                                                 *)
(***************************************************************************)
IngestMetadata(task, outcome) ==
    [namespace |-> task.namespace, parent_content_id |-> task.content_id,
     extraction_policy |-> task.policy_id, task_id |-> task.id,
     executor_id |-> "e1",
     output_to_index_table_mapping |-> OutputToIndexTableMapping,
     task_outcome |-> outcome]

\* A mutant of Advance: a child's CreateContent follows its own index writes,
\* before the next child is written.
Advance_Eager(c) ==
    LET list == c.args.extracted_content.content_list
    IN  IF c.i > Len(list)
        THEN [c EXCEPT !.pc = "returned", !.result = "Ok"]
        ELSE IF Len(c.new_content_metadata) < c.i
        THEN [c EXCEPT !.pc = "write_content"]
        ELSE IF c.j <= Len(list[c.i].features)
        THEN [c EXCEPT !.pc = "feature"]
        ELSE IF DOMAIN c.new_embeddings # {}
        THEN [c EXCEPT !.pc = "add_embedding"]
        ELSE [c EXCEPT !.pc = "create_content"]

\* Where the loops of write_extracted_content stand after a step: the next
\* feature of child i, the flush of its embeddings, the next child, or the
\* CreateContent loop.
Advance(c) ==
    LET list == c.args.extracted_content.content_list
    IN  IF c.i > Len(list)
        THEN IF c.new_content_metadata = <<>>
             THEN [c EXCEPT !.pc = "returned", !.result = "Ok"]
             ELSE [c EXCEPT !.pc = "create_content", !.i = 1]
        ELSE IF Len(c.new_content_metadata) < c.i
        THEN [c EXCEPT !.pc = "write_content"]
        ELSE IF c.j <= Len(list[c.i].features)
        THEN [c EXCEPT !.pc = "feature"]
        ELSE IF DOMAIN c.new_embeddings # {}
        THEN [c EXCEPT !.pc = "add_embedding"]
        ELSE IF c.i < Len(list)
        THEN [c EXCEPT !.pc = "write_content", !.i = @ + 1, !.j = 1]
        ELSE [c EXCEPT !.pc = "create_content", !.i = 1]

write_extracted_content(task_id, outcome, content_list) ==
    /\ task_id \in DOMAIN sm.tasks
    /\ Begin("write_extracted_content",
             [ingest_metadata |-> IngestMetadata(sm.tasks[task_id], outcome),
              extracted_content |-> [content_list |-> content_list]],
             IF content_list = <<>> THEN "returned" ELSE "write_content")
    /\ UNCHANGED repl_vars
    /\ UNCHANGED <<sm, blobs, vec_tables, meta_index, nonces, clock, last, reported, task_updates>>

write_extracted_content_write_content ==
    /\ call.op = "write_extracted_content" /\ call.pc = "write_content"
    /\ LET im == call.args.ingest_metadata
           content == call.args.extracted_content.content_list[call.i]
           md == write_content(im.namespace, content, None, Some(im.parent_content_id),
                               im.extraction_policy, Len(content.bytes), nonces + 1, clock)
       IN  /\ nonces' = nonces + 1
           /\ clock' = clock + 1
           /\ \/ /\ blobs' = write_to_blob_store(blobs, md.file_name, content.bytes)
                 /\ call' = Advance([call EXCEPT !.new_content_metadata = Append(@, md),
                                                 !.j = 1, !.new_embeddings = <<>>])
              \/ /\ Fails
                 /\ UNCHANGED blobs
    /\ UNCHANGED repl_vars
    /\ UNCHANGED <<sm, vec_tables, meta_index, ncalls, last, reported, task_updates>>

write_extracted_content_feature ==
    /\ call.op = "write_extracted_content" /\ call.pc = "feature"
    /\ LET im == call.args.ingest_metadata
           content == call.args.extracted_content.content_list[call.i]
           md == call.new_content_metadata[call.i]
           feature == content.features[call.j]
           table == IndexTableName(im.output_to_index_table_mapping, feature.name)
           next == [call EXCEPT !.j = @ + 1]
       IN  IF table = None
           THEN \* unwrap_or_continue!: the feature is skipped
                /\ call' = Advance(next)
                /\ UNCHANGED meta_index
           ELSE IF feature.feature_type = "Embedding"
           THEN /\ IF ParseEmbedding(feature.data) = None
                   THEN Returns("Err")
                   ELSE call' = Advance([next EXCEPT !.new_embeddings =
                                  PushEmbedding(@, table[1],
                                      [content_id |-> md.id,
                                       embedding |-> ParseEmbedding(feature.data)[1]])])
                /\ UNCHANGED meta_index
           ELSE IF feature.feature_type = "Metadata"
           THEN \/ /\ meta_index' = [meta_index EXCEPT ![im.namespace] =
                                        Append(@, ExtractedMetadata(md.id, md.parent_id,
                                                   feature.data, "extractor_name",
                                                   im.extraction_policy, im.namespace))]
                   /\ call' = Advance(next)
                \/ /\ Fails
                   /\ UNCHANGED meta_index
           ELSE /\ call' = Advance(next)
                /\ UNCHANGED meta_index
    /\ UNCHANGED repl_vars
    /\ UNCHANGED <<sm, blobs, vec_tables, nonces, clock, ncalls, last, reported, task_updates>>

\* vector_index_manager.add_embedding(table, embeddings): rows are appended to
\* the table.
add_embedding(tables, table, embeddings) ==
    [tables EXCEPT ![table] = @ \o embeddings]

\* for (index_table_name, embeddings) in new_embeddings: in the map's order.
write_extracted_content_add_embedding ==
    /\ call.op = "write_extracted_content" /\ call.pc = "add_embedding"
    /\ \E table \in DOMAIN call.new_embeddings :
          \/ /\ vec_tables' = add_embedding(vec_tables, table, call.new_embeddings[table])
             /\ call' = Advance([call EXCEPT !.new_embeddings = Without(@, table)])
          \/ /\ Fails
             /\ UNCHANGED vec_tables
    /\ UNCHANGED repl_vars
    /\ UNCHANGED <<sm, blobs, meta_index, nonces, clock, ncalls, last, reported, task_updates>>

write_extracted_content_create_content ==
    /\ call.op = "write_extracted_content" /\ call.pc = "create_content"
    /\ \/ /\ sm' = Apply(sm, CreateContentRequest(<<call.new_content_metadata[call.i]>>))
          /\ IF call.i < Len(call.new_content_metadata)
             THEN call' = [call EXCEPT !.i = @ + 1]
             ELSE Returns("Ok")
       \/ /\ Fails
          /\ UNCHANGED sm
    /\ UNCHANGED repl_vars
    /\ UNCHANGED <<blobs, vec_tables, meta_index, nonces, clock, ncalls, last, reported, task_updates>>

(***************************************************************************)
(* finish_extracted_content_write                                          *)
(***************************************************************************)
\* The UpdateTaskRequest finish_extracted_content_write builds.
UpdateTaskRequest(begin_ingest) ==
    [executor_id |-> begin_ingest.executor_id, task_id |-> begin_ingest.task_id,
     outcome |-> begin_ingest.task_outcome, content_list |-> <<>>]

finish_extracted_content_write(task_id, outcome) ==
    /\ task_id \in DOMAIN sm.tasks
    /\ Begin("finish_extracted_content_write",
             [ingest_metadata |-> IngestMetadata(sm.tasks[task_id], outcome)], "update_task")
    /\ UNCHANGED repl_vars
    /\ UNCHANGED <<sm, blobs, vec_tables, meta_index, nonces, clock, last, reported, task_updates>>

\* coordinator_client.get() may fail (the call returns the error); a failed
\* update_task is logged and the call returns Ok.
finish_extracted_content_write_update_task ==
    /\ call.op = "finish_extracted_content_write" /\ call.pc = "update_task"
    /\ LET req == UpdateTaskRequest(call.args.ingest_metadata)
           issued == [request |-> req, begin_ingest |-> call.args.ingest_metadata,
                      children_written |-> reported[req.task_id]]
       IN  \/ /\ task_updates' = Append(task_updates, issued)
              /\ sm' = Apply(sm, UpdateTaskCommand(sm, req))
              /\ Returns("Ok")
           \/ /\ task_updates' = Append(task_updates, issued)
              /\ UNCHANGED sm
              /\ Swallows
           \/ /\ UNCHANGED <<task_updates, sm>>
              /\ Fails
    /\ UNCHANGED repl_vars
    /\ UNCHANGED <<blobs, vec_tables, meta_index, nonces, clock, ncalls, last, reported>>

(***************************************************************************)
(* The call returns to its caller.                                         *)
(***************************************************************************)
ChildIds(c) == {c.new_content_metadata[k].id : k \in 1..Len(c.new_content_metadata)}

Return ==
    /\ call.pc = "returned"
    /\ last' = [op |-> call.op, args |-> call.args, result |-> call.result]
    /\ reported' = IF /\ call.op = "write_extracted_content"
                      /\ call.result = "Ok"
                      /\ call.args.ingest_metadata.task_outcome = "Success"
                   THEN [reported EXCEPT ![call.args.ingest_metadata.task_id] = @ \cup ChildIds(call)]
                   ELSE reported
    /\ call' = Idle
    /\ UNCHANGED repl_vars
    /\ UNCHANGED <<sm, blobs, vec_tables, meta_index, nonces, clock, ncalls, task_updates>>

(***************************************************************************)
(* A command another client of the coordinator proposes while content is   *)
(* being ingested: the API's TombstoneContent.                             *)
(***************************************************************************)
TombstoneContentCmd(namespace, content_ids) ==
    /\ \E c \in content_ids : /\ c \in DOMAIN sm.content
                              /\ sm.content[c].namespace = namespace
                              /\ ~sm.content[c].tombstoned
    /\ sm' = Apply(sm, TombstoneContentRequest(namespace, content_ids))
    /\ UNCHANGED repl_vars
    /\ UNCHANGED <<blobs, vec_tables, meta_index, call, nonces, clock, ncalls, last,
                   reported, task_updates>>

(***************************************************************************)
(* Spec: the ingestion of raw content (upload_file, add_texts).            *)
(***************************************************************************)
Next ==
    \/ \E ns \in Namespaces, data \in BytesSet, name \in FileNames : upload_file(ns, data, name)
    \/ upload_file_write_content
    \/ upload_file_create_content
    \/ \E list \in SeqsUpTo(TextItems, MaxTexts) : add_texts("ns1", list)
    \/ add_texts_write_content
    \/ add_texts_create_content
    \/ Return

Spec == Init /\ [][Next]_vars

(***************************************************************************)
(* SpecExtract: an executor reports the output of a task.  The initial     *)
(* state is the one upload_file("ns1", "h", "a.txt") and the scheduler's   *)
(* CreateTasks leave: one root content and one task on it.  A call of      *)
(* write_extracted_content after the first is a retry with the same        *)
(* arguments.                                                              *)
(***************************************************************************)
RootContent ==
    write_content("ns1", UploadContent(<<104>>, "a.txt"), Some("a.txt"), None,
                  "ingestion", 1, 0, 1)

InitExtract ==
    /\ sm = Apply(Apply(InitState, CreateContentRequest(<<RootContent>>)),
                  CreateTasksRequest(<<Task("t1", "ns1", RootContent.id, "P")>>))
    /\ blobs = write_to_blob_store(<<>>, "a.txt", <<104>>)
    /\ vec_tables = [T \in IndexTables |-> <<>>]
    /\ meta_index = [ns \in Namespaces |-> <<>>]
    /\ call = Idle
    /\ nonces = 0
    /\ clock = 2
    /\ ncalls = 0
    /\ last = [op |-> "none", args |-> <<>>, result |-> "none"]
    /\ reported = [t \in TaskIds |-> {}]
    /\ task_updates = <<>>
    /\ log = <<>>
    /\ replicas = [r \in Replicas |-> [applied |-> 0, state |-> InitState]]

NextExtract ==
    \/ /\ last.op = "none"
       /\ call.pc = "idle"
       /\ \E t \in TaskIds, o \in Outcomes, list \in ExtractedContentLists :
             write_extracted_content(t, o, list)
    \/ /\ last.op = "write_extracted_content"
       /\ write_extracted_content(last.args.ingest_metadata.task_id,
                                  last.args.ingest_metadata.task_outcome,
                                  last.args.extracted_content.content_list)
    \/ write_extracted_content_write_content
    \/ write_extracted_content_feature
    \/ write_extracted_content_add_embedding
    \/ write_extracted_content_create_content
    \/ \E t \in TaskIds, o \in Outcomes : finish_extracted_content_write(t, o)
    \/ finish_extracted_content_write_update_task
    \/ Return
    \/ \E ns \in Namespaces : TombstoneContentCmd(ns, {RootContent.id})

SpecExtract == InitExtract /\ [][NextExtract]_vars

(***************************************************************************)
(* SpecGraph: CreateExtractionGraph commands are proposed to the leader,   *)
(* which validates each against its applied state before it is logged.     *)
(***************************************************************************)
MaxPolicies == 2

GraphNames == {"g1", "g2"}
PolicySet == [name : {"A", "B"}, content_source : {"ingestion", "A", "B"}]

create_extraction_graph(graph, policies, schema) ==
    /\ call.pc = "idle"
    /\ ncalls < MaxCommands
    /\ ncalls' = ncalls + 1
    /\ LET args == [extraction_graph |-> graph, extraction_policies |-> policies,
                    structured_data_schema |-> schema]
       IN  \/ /\ ValidExtractionGraph(sm, graph, policies)
              /\ sm' = Apply(sm, CreateExtractionGraphRequest(graph, policies, schema))
              /\ last' = [op |-> "CreateExtractionGraph", args |-> args,
                          result |-> "Ok", pre |-> sm]
           \/ /\ ~ValidExtractionGraph(sm, graph, policies)
              /\ sm' = sm
              /\ last' = [op |-> "CreateExtractionGraph", args |-> args,
                          result |-> "InvalidArgument", pre |-> sm]
    /\ UNCHANGED repl_vars
    /\ UNCHANGED <<blobs, vec_tables, meta_index, call, nonces, clock, reported, task_updates>>

NextGraph ==
    \E name \in GraphNames, policies \in SeqsUpTo(PolicySet, MaxPolicies) :
        create_extraction_graph([name |-> name, namespace |-> "ns1"], policies, "schema")

SpecGraph == Init /\ [][NextGraph]_vars

(***************************************************************************)
(* SpecRepl: the leader appends commands to the log; every replica applies *)
(* the log in order.                                                       *)
(***************************************************************************)
MaxLog == 3

OtherContent ==
    write_content("ns1", UploadContent(<<104, 105>>, "k"), Some("k"), None, "ingestion", 2, 0, 2)

Commands ==
    {CreateContentRequest(<<RootContent>>),
     CreateContentRequest(<<RootContent, OtherContent>>),
     CreateTasksRequest(<<Task("t1", "ns1", RootContent.id, "P")>>),
     UpdateTaskCommand(InitState, [executor_id |-> "e1", task_id |-> "t1",
                                   outcome |-> "Success", content_list |-> <<OtherContent>>]),
     TombstoneContentRequest("ns1", {RootContent.id}),
     MarkStateChangesProcessedRequest(<<[state_change_id |-> 1, processed_at |-> 1]>>)}

Propose(req) ==
    /\ Len(log) < MaxLog
    /\ log' = Append(log, req)
    /\ UNCHANGED replicas
    /\ UNCHANGED ingest_vars

ApplyEntry(r) ==
    /\ replicas[r].applied < Len(log)
    /\ replicas' = [replicas EXCEPT
                      ![r] = [applied |-> @.applied + 1,
                              state |-> Apply(@.state, log[@.applied + 1])]]
    /\ UNCHANGED log
    /\ UNCHANGED ingest_vars

NextRepl ==
    \/ \E req \in Commands : Propose(req)
    \/ \E r \in Replicas : ApplyEntry(r)

SpecRepl == Init /\ [][NextRepl]_vars

(***************************************************************************)
(* SpecGC: commands on content and its garbage collection are proposed to  *)
(* the leader, which validates each against its applied state and applies  *)
(* it.  The initial state holds the root content and one child that a      *)
(* write_extracted_content of the task on the root registered.             *)
(***************************************************************************)
MaxGcCommands == 4

ChildContent(n) ==
    write_content("ns1", [content_type |-> "text/plain", bytes |-> <<104>>,
                          labels |-> <<>>, features |-> <<>>],
                  None, Some(RootContent.id), "P", 1, n, 2)

InitGC ==
    /\ sm = Apply(InitState, CreateContentRequest(<<RootContent, ChildContent(1)>>))
    /\ blobs = <<>>
    /\ vec_tables = [T \in IndexTables |-> <<>>]
    /\ meta_index = [ns \in Namespaces |-> <<>>]
    /\ call = Idle
    /\ nonces = 1
    /\ clock = 3
    /\ ncalls = 0
    /\ last = [op |-> "none", args |-> <<>>, result |-> "none"]
    /\ reported = [t \in TaskIds |-> {}]
    /\ task_updates = <<>>
    /\ log = <<>>
    /\ replicas = [r \in Replicas |-> [applied |-> 0, state |-> InitState]]

\* The leader's handling of one proposed command: a command that fails its
\* validation is answered with an error and not logged.
Command(bound, op, args, req, valid) ==
    /\ call.pc = "idle"
    /\ ncalls < bound
    /\ ncalls' = ncalls + 1
    /\ sm' = IF valid THEN Apply(sm, req) ELSE sm
    /\ last' = [op |-> op, args |-> args, result |-> IF valid THEN "Ok" ELSE "Err",
                pre |-> sm, req |-> req]
    /\ UNCHANGED repl_vars
    /\ UNCHANGED <<blobs, vec_tables, meta_index, call, nonces, clock, reported, task_updates>>

create_content(bound, rows) ==
    Command(bound, "CreateContent", [content_metadata |-> rows], CreateContentRequest(rows), TRUE)

tombstone_content(bound, namespace, content_ids) ==
    /\ \E c \in content_ids : /\ c \in DOMAIN sm.content
                              /\ sm.content[c].namespace = namespace
                              /\ ~sm.content[c].tombstoned
    /\ Command(bound, "TombstoneContent", [namespace |-> namespace, content_ids |-> content_ids],
               TombstoneContentRequest(namespace, content_ids), TRUE)

\* The scheduler creates the gc task of a content that is tombstoned.
create_gc_task(bound, content_id) ==
    /\ content_id \in DOMAIN sm.content
    /\ sm.content[content_id].tombstoned
    /\ LET gc_task == GarbageCollectionTask(sm.content[content_id])
       IN  Command(bound, "CreateOrAssignGarbageCollectionTask", [gc_tasks |-> <<gc_task>>],
                   CreateOrAssignGarbageCollectionTaskRequest(<<gc_task>>), TRUE)

update_gc_task(bound, gc_id, mark_finished) ==
    /\ gc_id \in DOMAIN sm.gc_tasks
    /\ Command(bound, "UpdateGarbageCollectionTask",
               [gc_task |-> sm.gc_tasks[gc_id], mark_finished |-> mark_finished],
               UpdateGarbageCollectionTaskRequest(sm.gc_tasks[gc_id], mark_finished), TRUE)

remove_tombstoned_content(bound, content_id) ==
    Command(bound, "RemoveTombstonedContent", [content_id |-> content_id],
            RemoveTombstonedContentRequest(content_id),
            CanRemoveTombstonedContent(sm, content_id))

GcContentIds == {RootContent.id, ChildContent(1).id, ChildContent(2).id}

NextGC ==
    \/ create_content(MaxGcCommands, <<ChildContent(2)>>)
    \/ \E c \in GcContentIds : tombstone_content(MaxGcCommands, "ns1", {c})
    \/ \E c \in GcContentIds : create_gc_task(MaxGcCommands, c)
    \/ \E c \in GcContentIds, f \in BOOLEAN :
          update_gc_task(MaxGcCommands, <<"gc">> \o c, f)
    \/ \E c \in GcContentIds : remove_tombstoned_content(MaxGcCommands, c)

SpecGC == InitGC /\ [][NextGC]_vars

(***************************************************************************)
(* SpecExec: executors come and go while the scheduler assigns tasks.  The *)
(* initial state holds two contents and one open task on each.             *)
(***************************************************************************)
MaxExecCommands == 5

ExecutorIds == {"e1", "e2", "e3"}
ExecutorExtractor(e) == IF e = "e3" THEN "Y" ELSE "X"
ExecTaskIds == {"t1", "t2"}

\* The maps an AssignTask carries: some of the tasks, each with an executor.
Assignments == UNION {[T -> ExecutorIds] : T \in (SUBSET ExecTaskIds) \ {{}}}

InitExec ==
    /\ sm = Apply(Apply(InitState, CreateContentRequest(<<RootContent, OtherContent>>)),
                  CreateTasksRequest(<<Task("t1", "ns1", RootContent.id, "P"),
                                       Task("t2", "ns1", OtherContent.id, "P")>>))
    /\ blobs = <<>>
    /\ vec_tables = [T \in IndexTables |-> <<>>]
    /\ meta_index = [ns \in Namespaces |-> <<>>]
    /\ call = Idle
    /\ nonces = 0
    /\ clock = 3
    /\ ncalls = 0
    /\ last = [op |-> "none", args |-> <<>>, result |-> "none"]
    /\ reported = [t \in TaskIds |-> {}]
    /\ task_updates = <<>>
    /\ log = <<>>
    /\ replicas = [r \in Replicas |-> [applied |-> 0, state |-> InitState]]

register_executor(bound, executor_id) ==
    Command(bound, "RegisterExecutor", [executor_id |-> executor_id],
            RegisterExecutorRequest(executor_id, ExecutorExtractor(executor_id)), TRUE)

remove_executor(bound, executor_id) ==
    Command(bound, "RemoveExecutor", [executor_id |-> executor_id],
            RemoveExecutorRequest(executor_id), executor_id \in DOMAIN sm.executors)

assign_task(bound, assignments) ==
    Command(bound, "AssignTask", [assignments |-> assignments],
            AssignTaskRequest(assignments), CanAssignTask(sm, assignments))

\* The executor a task is assigned to reports its outcome.
update_task(bound, task_id, outcome) ==
    /\ task_id \in DOMAIN sm.tasks
    /\ sm.tasks[task_id].outcome = "Unknown"
    /\ sm.tasks[task_id].executor_id # None
    /\ LET req == [executor_id |-> sm.tasks[task_id].executor_id[1], task_id |-> task_id,
                   outcome |-> outcome, content_list |-> <<>>]
       IN  Command(bound, "UpdateTask", req, UpdateTaskCommand(sm, req), TRUE)

NextExec ==
    \/ \E e \in ExecutorIds : register_executor(MaxExecCommands, e)
    \/ \E e \in ExecutorIds : remove_executor(MaxExecCommands, e)
    \/ \E a \in Assignments : assign_task(MaxExecCommands, a)
    \/ \E t \in ExecTaskIds, o \in Outcomes : update_task(MaxExecCommands, t, o)

SpecExec == InitExec /\ [][NextExec]_vars

(***************************************************************************)
(* SpecSched: content is registered, the scheduler turns each unprocessed  *)
(* NewContent state change into the tasks of the content, executors take   *)
(* and report them, and a command that was applied may be applied again    *)
(* (a retry after a lost acknowledgement).                                 *)
(***************************************************************************)
MaxSchedCommands == 5

\* A later upload of the root's name: the same id, other bytes and time.
RootContentAgain ==
    write_content("ns1", UploadContent(<<104, 105>>, "a.txt"), Some("a.txt"), None,
                  "ingestion", 2, 0, 3)

SchedRows == {<<RootContent>>, <<OtherContent>>, <<RootContent, OtherContent>>,
              <<RootContentAgain>>}

\* The first state change of a type that the scheduler has not processed.
Unprocessed(sm_, change_type) ==
    {k \in 1..Len(sm_.state_changes) :
        /\ sm_.state_changes[k].change_type = change_type
        /\ ~sm_.state_changes[k].processed}

\* The task the scheduler creates for a content and a policy: the n-th task
\* it creates, under a fresh id.
ScheduledTask(content, policy_id, n) ==
    Task("task" \o ToString(n), content.namespace, content.id, policy_id)

\* The scheduler's command for one NewContent: the tasks of the content, and
\* the state change marked processed in the same request.
ScheduleRequest(tasks, change) ==
    [payload |-> [type |-> "CreateTasks", tasks |-> tasks],
     new_state_changes |-> <<>>,
     state_changes_processed |-> <<[state_change_id |-> change.id, processed_at |-> 1]>>]

schedule(bound) ==
    /\ Unprocessed(sm, "NewContent") # {}
    /\ LET k == CHOOSE n \in Unprocessed(sm, "NewContent") :
                    \A m \in Unprocessed(sm, "NewContent") : n <= m
           change == sm.state_changes[k]
           tasks == IF change.object_id \in DOMAIN sm.content
                    THEN [p \in 1..1 |-> ScheduledTask(sm.content[change.object_id], "P",
                                                       Cardinality(DOMAIN sm.tasks) + 1)]
                    ELSE <<>>
       IN  Command(bound, "CreateTasks", [tasks |-> tasks], ScheduleRequest(tasks, change), TRUE)

\* A command that was applied is applied again.
replay_command(bound) ==
    /\ last.op # "none"
    /\ last.result = "Ok"
    /\ Command(bound, last.op, last.args, last.req, TRUE)

NextSched ==
    \/ \E rows \in SchedRows : create_content(MaxSchedCommands, rows)
    \/ schedule(MaxSchedCommands)
    \/ replay_command(MaxSchedCommands)
    \/ register_executor(MaxSchedCommands, "e1")
    \/ remove_executor(MaxSchedCommands, "e1")
    \/ \E t \in DOMAIN sm.tasks : assign_task(MaxSchedCommands, [x \in {t} |-> "e1"])
    \/ \E t \in DOMAIN sm.tasks, o \in Outcomes : update_task(MaxSchedCommands, t, o)

SpecSched == Init /\ [][NextSched]_vars

(***************************************************************************)
(* SpecPolicy: create_extraction_policy.  No vector table exists at the    *)
(* start; a call registers the policy with the coordinator and then, for   *)
(* every output of the policy's extractor, creates the vector table of an  *)
(* Embedding output and registers the index record.                        *)
(***************************************************************************)
EmbeddingSchema == [kind |-> "Embedding", dim |-> 2]
AttributesSchema == [kind |-> "Attributes", dim |-> 0]
GarbageSchema == [kind |-> "garbage", dim |-> 0]

\* The extractors the coordinator knows: name -> outputs (output name -> the
\* JSON string of its OutputSchema).
Extractors ==
    [X |-> [emb |-> EmbeddingSchema, meta |-> AttributesSchema],
     Y |-> [emb |-> EmbeddingSchema, emb2 |-> EmbeddingSchema],
     W |-> [emb |-> EmbeddingSchema, bad |-> GarbageSchema]]

\* The policies a caller submits; no extractor is registered under "Z".
PolicyInputs ==
    [name : {"P", "Q"}, extractor : {"X", "Y", "W", "Z"},
     graph : {"g1"}, content_source : {"ingestion"}]

\* serde_json::from_str::<OutputSchema>(output_schema)
ParseOutputSchema(str) ==
    IF str.kind \in {"Embedding", "Attributes"} THEN Some(str) ELSE None

\* A mutant of IsEmbedding: no output has its table created.
IsEmbedding_Never(output_schema) == FALSE

\* match output_schema { OutputSchema::Embedding(..) => create_index, _ => {} }
IsEmbedding(output_schema) == output_schema.kind = "Embedding"

\* The coordinator's names for the index of a policy's output and its table.
IndexName(policy_name, output) == policy_name \o "." \o output
TableName(namespace, index_name) == namespace \o "." \o index_name
IndexId(namespace, index_name) == <<namespace, index_name>>

\* The response of the coordinator's create_extraction_policy.
ExtractionPolicyResponse(namespace, policy) ==
    LET outputs == DOMAIN Extractors[policy.extractor]
    IN  [extractor |-> Some([name |-> policy.extractor,
                              outputs |-> Extractors[policy.extractor]]),
         output_index_name_mapping |-> [o \in outputs |-> IndexName(policy.name, o)],
         index_name_table_mapping |->
             [n \in {IndexName(policy.name, o) : o \in outputs} |-> TableName(namespace, n)]]

\* The orders in which a map's keys may be iterated.
Orders(keys) ==
    {order \in [1..Cardinality(keys) -> keys] :
        \A a, b \in 1..Cardinality(keys) : a # b => order[a] # order[b]}

\* vector_index_manager.create_index(table_name, schema): idempotent on
\* table_name.
create_index(tables, table_name, schema) ==
    IF table_name \in DOMAIN tables THEN tables ELSE Put(tables, table_name, <<>>)

\* The index record create_index_metadata sends.
IndexRecord(namespace, index_name, table_name, schema, extraction_policy, extractor) ==
    [name |-> index_name, table_name |-> table_name, namespace |-> namespace,
     schema |-> schema, extraction_policy |-> extraction_policy, extractor |-> extractor]

InitPolicy ==
    /\ sm = InitState
    /\ blobs = <<>>
    /\ vec_tables = <<>>
    /\ meta_index = [ns \in Namespaces |-> <<>>]
    /\ call = Idle
    /\ nonces = 0
    /\ clock = 1
    /\ ncalls = 0
    /\ last = [op |-> "none", args |-> <<>>, result |-> "none"]
    /\ reported = [t \in TaskIds |-> {}]
    /\ task_updates = <<>>
    /\ log = <<>>
    /\ replicas = [r \in Replicas |-> [applied |-> 0, state |-> InitState]]

create_extraction_policy(namespace, extraction_policy) ==
    /\ Begin("create_extraction_policy",
             [namespace |-> namespace, extraction_policy |-> extraction_policy],
             "create_extraction_policy")
    /\ UNCHANGED repl_vars
    /\ UNCHANGED <<sm, blobs, vec_tables, meta_index, nonces, clock, last, reported, task_updates>>

\* The coordinator's create_extraction_policy: it fails, or answers without
\* an extractor, or attaches the policy and answers with the extractor and
\* the index and table names; the loop then takes the outputs in the map's
\* order.
create_extraction_policy_rpc ==
    /\ call.op = "create_extraction_policy" /\ call.pc = "create_extraction_policy"
    /\ LET a == call.args
           policy == a.extraction_policy
       IN  \/ /\ Fails
              /\ UNCHANGED sm
           \/ /\ policy.extractor \notin DOMAIN Extractors
              /\ Returns("Err")
              /\ UNCHANGED sm
           \/ /\ policy.extractor \in DOMAIN Extractors
              /\ sm' = Apply(sm, CreateExtractionPolicyRequest(
                                     [name |-> policy.name, graph |-> policy.graph,
                                      namespace |-> a.namespace,
                                      content_source |-> policy.content_source]))
              /\ \E order \in Orders(DOMAIN Extractors[policy.extractor]) :
                    call' = Put(Put(Put([call EXCEPT !.pc = "create_index", !.i = 1],
                                        "response", ExtractionPolicyResponse(a.namespace, policy)),
                                    "outputs", order),
                                "index_names", <<>>)
    /\ UNCHANGED repl_vars
    /\ UNCHANGED <<blobs, vec_tables, meta_index, nonces, clock, ncalls, last, reported, task_updates>>

\* The output the loop stands at: its name, schema string, index and table.
CurrentOutput(c) ==
    LET name == c.outputs[c.i]
        index_name == c.response.output_index_name_mapping[name]
    IN  [name |-> name,
         output_schema |-> c.response.extractor[1].outputs[name],
         index_name |-> index_name,
         table_name |-> c.response.index_name_table_mapping[index_name]]

\* One iteration up to create_index_metadata: the schema is parsed, the index
\* name is pushed and the table of an Embedding output is created.
create_extraction_policy_create_index ==
    /\ call.op = "create_extraction_policy" /\ call.pc = "create_index"
    /\ LET o == CurrentOutput(call)
           parsed == ParseOutputSchema(o.output_schema)
           next == [call EXCEPT !.pc = "create_index_metadata",
                                !.index_names = Append(@, o.index_name)]
       IN  IF parsed = None
           THEN /\ Returns("Err")
                /\ UNCHANGED vec_tables
           ELSE IF IsEmbedding(parsed[1])
           THEN \/ /\ vec_tables' = create_index(vec_tables, o.table_name, parsed[1])
                   /\ call' = next
                \/ /\ Fails
                   /\ UNCHANGED vec_tables
           ELSE /\ call' = next
                /\ UNCHANGED vec_tables
    /\ UNCHANGED repl_vars
    /\ UNCHANGED <<sm, blobs, meta_index, nonces, clock, ncalls, last, reported, task_updates>>

\* create_index_metadata: CreateIndex is sent to the coordinator.
create_extraction_policy_create_index_metadata ==
    /\ call.op = "create_extraction_policy" /\ call.pc = "create_index_metadata"
    /\ LET a == call.args
           o == CurrentOutput(call)
           index == IndexRecord(a.namespace, o.index_name, o.table_name, o.output_schema,
                                a.extraction_policy.name, call.response.extractor[1].name)
       IN  \/ /\ sm' = Apply(sm, CreateIndexRequest(index, a.namespace,
                                                    IndexId(a.namespace, o.index_name)))
              /\ IF call.i < Len(call.outputs)
                 THEN call' = [call EXCEPT !.pc = "create_index", !.i = @ + 1]
                 ELSE Returns("Ok")
           \/ /\ Fails
              /\ UNCHANGED sm
    /\ UNCHANGED repl_vars
    /\ UNCHANGED <<blobs, vec_tables, meta_index, nonces, clock, ncalls, last, reported, task_updates>>

NextPolicy ==
    \/ \E ns \in Namespaces, policy \in PolicyInputs : create_extraction_policy(ns, policy)
    \/ create_extraction_policy_rpc
    \/ create_extraction_policy_create_index
    \/ create_extraction_policy_create_index_metadata
    \/ Return

SpecPolicy == InitPolicy /\ [][NextPolicy]_vars

(***************************************************************************)
(* Claims on the ingestion of raw content (Spec).                          *)
(***************************************************************************)
SameTuple(a, b) ==
    /\ a.namespace = b.namespace
    /\ a.file_name = b.file_name
    /\ a.parent_id = b.parent_id

Rows(content) == {content[c] : c \in DOMAIN content}

\* C1: the content id is a function of (namespace, file_name, parent_id):
\* every record write_content has built carries the id of any stored record
\* with the same tuple, whatever their bytes, mime, labels or time; and the
\* stored records hold at most one record per tuple, filed under its id.
C1_DeterministicIds ==
    /\ \A c \in DOMAIN sm.content : sm.content[c].id = c
    /\ \A a, b \in Rows(sm.content) : SameTuple(a, b) => a = b
    /\ call.op # "none" =>
          \A k \in 1..Len(call.new_content_metadata) :
             \A r \in Rows(sm.content) :
                SameTuple(call.new_content_metadata[k], r) => r.id = call.new_content_metadata[k].id

\* C1 witness: a second CreateContent for a tuple that is already stored, with
\* other bytes and another time, has been applied.
C1_Witness ==
    /\ call.op = "upload_file" /\ call.pc = "returned" /\ call.result = "Ok"
    /\ \E r \in Rows(call.pre.content) :
          /\ SameTuple(r, call.new_content_metadata[1])
          /\ r.size_bytes # call.new_content_metadata[1].size_bytes
          /\ r.created_at # call.new_content_metadata[1].created_at

\* C2 (as claimed): a call that repeats the last successful call with the same
\* arguments leaves the content records and every index as it found them.
C2_IdempotentIngest ==
    (call.op # "none" /\ call.pc = "returned" /\ call.replay /\ call.result = "Ok") =>
        /\ sm.content = call.pre.content
        /\ vec_tables = call.pre.vec_tables
        /\ meta_index = call.pre.meta_index

NamedRows(content, namespace, name) ==
    {r \in Rows(content) : r.namespace = namespace /\ r.file_name = name}

\* C9: a namespace never holds two content rows of one file name; after an
\* upload_file that succeeded it holds exactly one, and an upload of a name
\* that already had its row leaves the content records as they were.
C9_UploadOnce ==
    /\ \A ns \in Namespaces, name \in FileNames :
          Cardinality(NamedRows(sm.content, ns, name)) <= 1
    /\ (call.op = "upload_file" /\ call.pc = "returned" /\ call.result = "Ok") =>
          /\ Cardinality(NamedRows(sm.content, call.args.namespace, call.args.name)) = 1
          /\ NamedRows(call.pre.content, call.args.namespace, call.args.name) # {}
                => sm.content = call.pre.content

\* C9 witness: a later upload of a name that already has its row returns.
C9_Witness ==
    /\ call.op = "upload_file" /\ call.pc = "returned" /\ call.result = "Ok"
    /\ NamedRows(call.pre.content, call.args.namespace, call.args.name) # {}

NamespaceEmpty(content, namespace) == \A r \in Rows(content) : r.namespace # namespace

\* C10: when upload_file(namespace, bytes, name) succeeds on an empty
\* namespace, the blob under the key name holds bytes and listing the
\* namespace's "ingestion" content gives one row: file_name = name, no
\* parent, source "ingestion", size_bytes = the length of bytes, storage_url =
\* the url of the blob.
C10_UploadRoundtrip ==
    (/\ call.op = "upload_file" /\ call.pc = "returned" /\ call.result = "Ok"
     /\ NamespaceEmpty(call.pre.content, call.args.namespace)) =>
        /\ call.args.name \in DOMAIN blobs
        /\ blobs[call.args.name] = call.args.data
        /\ \E row \in ListContent(sm, call.args.namespace, "ingestion", EmptyId, <<>>) :
              /\ ListContent(sm, call.args.namespace, "ingestion", EmptyId, <<>>) = {row}
              /\ row.file_name = call.args.name
              /\ row.parent_id = EmptyId
              /\ row.source = "ingestion"
              /\ row.size_bytes = Len(call.args.data)
              /\ row.storage_url = StorageUrl(call.args.name)

\* C10 witness: an upload of two bytes into an empty namespace has succeeded
\* while the other namespace holds content.
C10_Witness ==
    /\ call.op = "upload_file" /\ call.pc = "returned" /\ call.result = "Ok"
    /\ NamespaceEmpty(call.pre.content, call.args.namespace)
    /\ Len(call.args.data) = 2
    /\ call.pre.content # <<>>

(***************************************************************************)
(* Claims on the executor's path (SpecExtract).                            *)
(***************************************************************************)
Terminal(t) == sm.tasks[t].outcome # "Unknown"

\* C3 (as claimed): for a task whose children have been reported with outcome
\* Success, either the task is terminal and every child is a content record,
\* or the task is not terminal and no child is a content record.
C3_TaskAtomicity ==
    \A t \in DOMAIN sm.tasks :
        reported[t] # {} =>
            \/ Terminal(t) /\ reported[t] \subseteq DOMAIN sm.content
            \/ ~Terminal(t) /\ reported[t] \cap DOMAIN sm.content = {}

\* C4 (as claimed): every task update issued carries the outcome of its call
\* and, in content_list, every child the preceding write_extracted_content
\* calls of the task wrote.
C4_UpdateCarriesChildren ==
    \A k \in 1..Len(task_updates) :
        /\ task_updates[k].request.outcome = task_updates[k].begin_ingest.task_outcome
        /\ task_updates[k].children_written \subseteq
              {task_updates[k].request.content_list[n].id :
                  n \in 1..Len(task_updates[k].request.content_list)}

\* C6 (as claimed): in every state, a content whose parent is tombstoned is
\* tombstoned too.
C6_TombstoneClosure ==
    \A c \in DOMAIN sm.content :
        LET p == sm.content[c].parent_id
        IN  (p \in DOMAIN sm.content /\ sm.content[p].tombstoned) => sm.content[c].tombstoned

\* The embedding rows a list of features yields for a table, in order.
RECURSIVE FeatureRows(_, _, _)
FeatureRows(features, content_id, table) ==
    IF features = <<>> THEN <<>>
    ELSE LET f == Head(features)
             routed == /\ f.feature_type = "Embedding"
                       /\ f.name \in DOMAIN OutputToIndexTableMapping
                       /\ OutputToIndexTableMapping[f.name] = table
         IN  (IF routed THEN <<[content_id |-> content_id, embedding |-> f.data.values]>> ELSE <<>>)
             \o FeatureRows(Tail(features), content_id, table)

\* The rows the first n children of the call yield for a table.
RECURSIVE ChildrenRows(_, _, _)
ChildrenRows(c, n, table) ==
    IF n = 0 THEN <<>>
    ELSE ChildrenRows(c, n - 1, table)
         \o FeatureRows(c.args.extracted_content.content_list[n].features,
                        c.new_content_metadata[n].id, table)

\* C8: during a write_extracted_content call every table holds what it held
\* before the call followed by the rows of the Embedding features routed to it
\* by output_to_index_table_mapping, child by child, and nothing else; when
\* the call has succeeded every child's rows are there.
C8_IndexRouting ==
    call.op = "write_extracted_content" =>
        \A table \in IndexTables :
            /\ \E n \in 0..Len(call.new_content_metadata) :
                  vec_tables[table] = call.pre.vec_tables[table] \o ChildrenRows(call, n, table)
            /\ (call.pc = "returned" /\ call.result = "Ok") =>
                  vec_tables[table] = call.pre.vec_tables[table]
                      \o ChildrenRows(call, Len(call.new_content_metadata), table)

\* C8 witness: a call has succeeded whose children carried embeddings for both
\* tables and the first table held rows before the call.
C8_Witness ==
    /\ call.op = "write_extracted_content" /\ call.pc = "returned" /\ call.result = "Ok"
    /\ call.pre.vec_tables["T1"] # <<>>
    /\ Len(vec_tables["T1"]) > Len(call.pre.vec_tables["T1"])
    /\ Len(vec_tables["T2"]) > Len(call.pre.vec_tables["T2"])

(***************************************************************************)
(* Claims on CreateExtractionGraph (SpecGraph).                            *)
(***************************************************************************)
\* The content_source relation of a list of policies and its closure.
Edges(policies) == {<<policies[k].name, policies[k].content_source>> : k \in 1..Len(policies)}

RECURSIVE TransitiveClosure(_)
TransitiveClosure(R) ==
    LET more == R \cup {<<e[1], f[2]>> : e, f \in R}
        step == R \cup {x \in more : \E e, f \in R : e[2] = f[1] /\ x = <<e[1], f[2]>>}
    IN  IF step = R THEN R ELSE TransitiveClosure(step)

HasCycle(policies) == \E e \in TransitiveClosure(Edges(policies)) : e[1] = e[2]

Unresolved(policies) ==
    \E k \in 1..Len(policies) :
        /\ policies[k].content_source # "ingestion"
        /\ \A j \in 1..Len(policies) : policies[j].name # policies[k].content_source

Colliding(state, graph, policies) ==
    \/ \E j, k \in 1..Len(policies) : j < k /\ policies[j].name = policies[k].name
    \/ \E k \in 1..Len(policies), id \in DOMAIN state.policies :
          id = <<graph.namespace, graph.name, policies[k].name>>

Registered(c) ==
    IF c.pc = "returned" /\ c.result = "Ok" THEN Len(c.args.content_list) ELSE c.i - 1

\* C11: during and after an add_texts call the items are handled in input
\* order: the records built are those of a prefix of the items, each with
\* source "ingestion", no parent and its item's bytes in its blob; the
\* registered items are the prefix before the item the loop stands at, their
\* NewContent state changes in input order; nothing else was written or
\* registered; the call succeeds only with every item registered, and when it
\* returns an error the items before the failing one stay registered and no
\* later item has a blob or a record.
C11_AddTextsOrder ==
    call.op = "add_texts" =>
        LET list == call.args.content_list
            md == call.new_content_metadata
            done == Registered(call)
            sc == sm.state_changes
        IN  /\ Len(md) \in {done, done + 1} /\ Len(md) <= Len(list)
            /\ call.pc = "write_content" => Len(md) = call.i - 1
            /\ call.pc = "create_content" => Len(md) = call.i
            /\ \A k \in 1..Len(md) :
                  /\ md[k].source = "ingestion"
                  /\ md[k].parent_id = EmptyId
                  /\ md[k].namespace = call.args.namespace
                  /\ md[k].size_bytes = Len(list[k].bytes)
                  /\ md[k].file_name \in DOMAIN blobs
                  /\ blobs[md[k].file_name] = list[k].bytes
            /\ DOMAIN blobs = DOMAIN call.pre.blobs \cup {md[k].file_name : k \in 1..Len(md)}
            /\ DOMAIN sm.content = DOMAIN call.pre.content \cup {md[k].id : k \in 1..done}
            /\ Len(sc) >= done
            /\ \A k \in 1..done :
                  /\ sm.content[md[k].id].source = "ingestion"
                  /\ sm.content[md[k].id].parent_id = EmptyId
                  /\ sc[Len(sc) - done + k].change_type = "NewContent"
                  /\ sc[Len(sc) - done + k].object_id = md[k].id
            /\ (call.pc = "returned" /\ call.result = "Err") => done < Len(list)

\* C11 witness: add_texts of two texts of different bytes has returned an
\* error at the CreateContent of the second, the first being registered.
C11_Witness ==
    /\ call.op = "add_texts" /\ call.pc = "returned" /\ call.result = "Err"
    /\ Len(call.args.content_list) = 2
    /\ call.args.content_list[1].bytes # call.args.content_list[2].bytes
    /\ call.i = 2
    /\ Len(call.new_content_metadata) = 2
    /\ call.new_content_metadata[1].id \in DOMAIN sm.content


(***************************************************************************)
(* Claims on error propagation (SpecExtract).                              *)
(***************************************************************************)
\* C12 (as claimed): an operation one of whose coordinator, blob or index
\* calls failed with a kind other than Unavailable returns an error, never
\* success.
C12_ErrorsSurface ==
    (call.op # "none" /\ call.pc = "returned" /\ call.error \notin {"none", "Unavailable"})
        => call.result = "Err"


(***************************************************************************)
(* Claims on garbage collection (SpecGC).                                  *)
(***************************************************************************)
\* The content was tombstoned and a gc task of it had finished = true.
ConfirmedErased(state, content_id) ==
    /\ content_id \in DOMAIN state.content
    /\ state.content[content_id].tombstoned
    /\ \E g \in DOMAIN state.gc_tasks :
          state.gc_tasks[g].content_id = content_id /\ state.gc_tasks[g].finished = TRUE

\* C13: a RemoveTombstonedContent{content_id} of a content that is tombstoned
\* and whose gc task is finished deletes that record and no other; in every
\* other case it fails and leaves the state as it was.  No command deletes a
\* content record otherwise.
C13_RemoveAfterGc ==
    last.op # "none" =>
        /\ last.op = "RemoveTombstonedContent" =>
              IF ConfirmedErased(last.pre, last.args.content_id)
              THEN /\ last.result = "Ok"
                   /\ DOMAIN sm.content = DOMAIN last.pre.content \ {last.args.content_id}
                   /\ \A c \in DOMAIN sm.content : sm.content[c] = last.pre.content[c]
              ELSE last.result = "Err" /\ sm = last.pre
        /\ \A c \in DOMAIN last.pre.content \ DOMAIN sm.content :
              /\ last.op = "RemoveTombstonedContent"
              /\ c = last.args.content_id
              /\ ConfirmedErased(last.pre, c)

\* C13 witness: the root has been removed after its gc task finished, while
\* its child is still a record.
C13_Witness ==
    /\ last.op = "RemoveTombstonedContent" /\ last.result = "Ok"
    /\ last.args.content_id = RootContent.id
    /\ RootContent.id \notin DOMAIN sm.content
    /\ ChildContent(1).id \in DOMAIN sm.content


(***************************************************************************)
(* Claims on executors (SpecExec).                                         *)
(***************************************************************************)
\* The open tasks of a state that are assigned to an executor.
InFlight(state, e) ==
    {t \in DOMAIN state.tasks :
        state.tasks[t].outcome = "Unknown" /\ state.tasks[t].executor_id = <<e>>}

C18_ParentExists ==
    \A c \in DOMAIN sm.content :
        sm.content[c].parent_id # EmptyId =>
            /\ sm.content[c].parent_id \in DOMAIN sm.content
            /\ sm.content[sm.content[c].parent_id].namespace = sm.content[c].namespace


(***************************************************************************)
(* Claims on CreateContent and the scheduler's tasks (SpecSched).          *)
(***************************************************************************)
\* The NewContent state changes of a content id.
NewContentOf(state, id) ==
    {k \in 1..Len(state.state_changes) :
        /\ state.state_changes[k].change_type = "NewContent"
        /\ state.state_changes[k].object_id = id}

C15_ThreePhases ==
    call.op = "write_extracted_content" =>
        /\ vec_tables # call.pre.vec_tables =>
              Len(call.new_content_metadata) = Len(call.args.extracted_content.content_list)
        /\ DOMAIN sm.content # DOMAIN call.pre.content =>
              /\ Len(call.new_content_metadata) = Len(call.args.extracted_content.content_list)
              /\ call.pc \in {"create_content", "returned"}


\* C16 (as claimed): when a write_extracted_content call has succeeded, every
\* Metadata feature of every child has its row {child content id, parent_id,
\* policy, data} in the metadata index of the namespace, whether or not
\* output_to_index_table_mapping has an entry for the feature's name.
C16_MetadataInserted ==
    (call.op = "write_extracted_content" /\ call.pc = "returned" /\ call.result = "Ok") =>
        LET im == call.args.ingest_metadata
            list == call.args.extracted_content.content_list
            rows == meta_index[im.namespace]
        IN  \A k \in 1..Len(list) : \A j \in 1..Len(list[k].features) :
                list[k].features[j].feature_type = "Metadata" =>
                    \E n \in 1..Len(rows) :
                        /\ rows[n].content_id = call.new_content_metadata[k].id
                        /\ rows[n].parent_id = im.parent_content_id
                        /\ rows[n].extraction_policy = im.extraction_policy
                        /\ rows[n].metadata = list[k].features[j].data


(***************************************************************************)
(* Claims on the blob layout (Spec).                                       *)
(***************************************************************************)
\* C17 (as claimed): two content records with different ids never share a
\* blob key (their file_name), and an ingest call leaves the blob of every
\* content record other than the ones it writes as it found it.
C17_BlobKeyUnique ==
    /\ \A a, b \in Rows(sm.content) : a.id # b.id => a.file_name # b.file_name
    /\ call.op # "none" =>
          \A r \in Rows(call.pre.content) :
              (\A k \in 1..Len(call.new_content_metadata) : call.new_content_metadata[k].id # r.id)
                 => blobs[r.file_name] = call.pre.blobs[r.file_name]


(***************************************************************************)
(* Claims on the failure of write_extracted_content (SpecExtract).         *)
(***************************************************************************)
\* The children of the call whose CreateContent has been applied: the ids of
\* a call's children are fresh, so a record under one was registered by it.
RegisteredChildren(c) ==
    {k \in 1..Len(c.new_content_metadata) : c.new_content_metadata[k].id \in DOMAIN sm.content}

\* The blob of each of the first n children is written.
BlobsWritten(c, n) ==
    \A k \in 1..n :
        /\ c.new_content_metadata[k].file_name \in DOMAIN blobs
        /\ blobs[c.new_content_metadata[k].file_name]
              = c.args.extracted_content.content_list[k].bytes

\* Every mapped Metadata feature of the first n children has its row.
MetadataWritten(c, n) ==
    LET im == c.args.ingest_metadata
        list == c.args.extracted_content.content_list
        rows == meta_index[im.namespace]
    IN  \A k \in 1..n : \A j \in 1..Len(list[k].features) :
            (/\ list[k].features[j].feature_type = "Metadata"
             /\ list[k].features[j].name \in DOMAIN im.output_to_index_table_mapping)
               => \E r \in 1..Len(rows) :
                     /\ rows[r].content_id = c.new_content_metadata[k].id
                     /\ rows[r].metadata = list[k].features[j].data

\* Every mapped embedding of the first n children is appended to its table.
EmbeddingsWritten(c, n) ==
    \A table \in IndexTables :
        \E m \in n..Len(c.new_content_metadata) :
            vec_tables[table] = c.pre.vec_tables[table] \o ChildrenRows(c, m, table)

\* Every blob write, metadata insert and embedding append of the call is done.
AllWritten(c) ==
    LET n == Len(c.args.extracted_content.content_list)
    IN  /\ Len(c.new_content_metadata) = n
        /\ BlobsWritten(c, n)
        /\ MetadataWritten(c, n)
        /\ EmbeddingsWritten(c, n)

\* C22: in a write_extracted_content call a child is registered only when
\* every blob write, metadata insert and embedding append of the call is
\* done; a call that returns Ok has done them all and registered every child,
\* so a call in which one of them failed has returned an error with no child
\* registered; what the call wrote before a failure stays (the blob of every
\* child reached, the tables and the metadata index of before the call as a
\* prefix); the registered children are a prefix of the input and their
\* NewContent state changes are in input order.
C22_CreateContentLast ==
    call.op = "write_extracted_content" =>
        LET list == call.args.extracted_content.content_list
            md == call.new_content_metadata
            reg == RegisteredChildren(call)
            idle_index == call.pre.meta_index[call.args.ingest_metadata.namespace]
            index == meta_index[call.args.ingest_metadata.namespace]
        IN  /\ reg # {} => (AllWritten(call) /\ call.pc \in {"create_content", "returned"})
            /\ (call.pc = "returned" /\ call.result = "Ok") =>
                  (AllWritten(call) /\ reg = 1..Len(list))
            /\ (call.pc = "returned" /\ ~AllWritten(call)) =>
                  (call.result = "Err" /\ reg = {})
            /\ BlobsWritten(call, Len(md))
            /\ \A table \in IndexTables :
                  /\ Len(vec_tables[table]) >= Len(call.pre.vec_tables[table])
                  /\ SubSeq(vec_tables[table], 1, Len(call.pre.vec_tables[table]))
                        = call.pre.vec_tables[table]
            /\ Len(index) >= Len(idle_index)
            /\ SubSeq(index, 1, Len(idle_index)) = idle_index
            /\ MetadataWritten(call, Len(md) - 1)
            /\ \A k \in reg : \A m \in 1..k : m \in reg
            /\ \A k, m \in reg :
                  k < m => \A a \in NewContentOf(sm, md[k].id), b \in NewContentOf(sm, md[m].id) :
                              a < b

\* C22 witness: a call with two children has returned an error from the
\* embedding append of the second child: the first child's blob, metadata row
\* and embedding are written and neither child is registered.
C22_Witness ==
    /\ call.op = "write_extracted_content" /\ call.pc = "returned" /\ call.result = "Err"
    /\ call.error # "none"
    /\ Len(call.args.extracted_content.content_list) = 2
    /\ Len(call.new_content_metadata) = 2
    /\ DOMAIN call.new_embeddings # {}
    /\ vec_tables # call.pre.vec_tables
    /\ RegisteredChildren(call) = {}


(***************************************************************************)
(* Claims on the index rows of content (SpecExtract).                      *)
(***************************************************************************)
\* The content ids the vector tables and the metadata indexes carry.
IndexedContentIds ==
    {vec_tables[t][k].content_id : <<t, k>> \in
        UNION {{<<t, k>> : k \in 1..Len(vec_tables[t])} : t \in IndexTables}}
    \cup
    {meta_index[ns][k].content_id : <<ns, k>> \in
        UNION {{<<ns, k>> : k \in 1..Len(meta_index[ns])} : ns \in Namespaces}}

\* C23 (as claimed): whenever no write_extracted_content call is in progress,
\* every vector of a vector table and every row of a metadata index carries
\* the id of a content record that has been registered with the coordinator.
C23_IndexRowsRegistered ==
    call.op # "write_extracted_content" => IndexedContentIds \subseteq DOMAIN sm.content


(***************************************************************************)
(* Claims on create_extraction_policy (SpecPolicy).                        *)
(***************************************************************************)
\* The outputs of the call whose CreateIndex has been acknowledged: all of
\* them when the call has succeeded, else those before the output the loop
\* stands at.
IndexesRegistered(c) ==
    IF c.pc = "returned" /\ c.result = "Ok" THEN Len(c.outputs) ELSE c.i - 1

\* The index id and the table of the k-th output of the call.
OutputIndexId(c, k) ==
    IndexId(c.args.namespace, c.response.output_index_name_mapping[c.outputs[k]])

OutputTable(c, k) ==
    c.response.index_name_table_mapping[c.response.output_index_name_mapping[c.outputs[k]]]

OutputIsEmbedding(c, k) ==
    c.response.extractor[1].outputs[c.outputs[k]].kind = "Embedding"

\* C21: every registered index of an Embedding schema has an existing vector
\* table; during and after a create_extraction_policy call the index records
\* are those of before the call and those of the outputs before the one the
\* loop stands at, the table of each of these Embedding outputs exists, and
\* no table of a later output was created: the table of an output precedes
\* its CreateIndex, and a call that returned an error from an output has
\* registered neither that output nor a later one.
C21_TableBeforeIndex ==
    /\ \A id \in DOMAIN sm.indexes :
          sm.indexes[id].schema.kind = "Embedding" =>
              sm.indexes[id].table_name \in DOMAIN vec_tables
    /\ (call.op = "create_extraction_policy" /\ "outputs" \in DOMAIN call) =>
          LET done == IndexesRegistered(call)
              reached == IF call.i < Len(call.outputs) THEN call.i ELSE Len(call.outputs)
          IN  /\ DOMAIN sm.indexes =
                    DOMAIN call.pre.indexes \cup {OutputIndexId(call, k) : k \in 1..done}
              /\ \A k \in 1..done :
                    OutputIsEmbedding(call, k) => OutputTable(call, k) \in DOMAIN vec_tables
              /\ DOMAIN vec_tables \subseteq
                    DOMAIN call.pre.vec_tables \cup
                       {OutputTable(call, k) : k \in {n \in 1..reached : OutputIsEmbedding(call, n)}}
              /\ (call.pc = "returned" /\ call.result = "Err") => done < Len(call.outputs)
    /\ (call.op = "create_extraction_policy" /\ "outputs" \notin DOMAIN call) =>
          (sm.indexes = call.pre.indexes /\ vec_tables = call.pre.vec_tables)

\* C21 witness: a call on an extractor with two Embedding outputs has
\* returned an error from create_index of the second output: the first
\* output's table and index record exist, the second's table and index
\* record do not.
C21_Witness ==
    /\ call.op = "create_extraction_policy" /\ call.pc = "returned" /\ call.result = "Err"
    /\ call.error # "none"
    /\ "outputs" \in DOMAIN call
    /\ call.i = 2 /\ Len(call.index_names) = 1
    /\ OutputIsEmbedding(call, 1) /\ OutputIsEmbedding(call, 2)
    /\ OutputTable(call, 1) \in DOMAIN vec_tables
    /\ OutputIndexId(call, 1) \in DOMAIN sm.indexes
    /\ OutputTable(call, 2) \notin DOMAIN vec_tables
    /\ OutputIndexId(call, 2) \notin DOMAIN sm.indexes
====
